---- MODULE Spec2Model ----
(***************************************************************************)
(* Model of das: the network builders of src/das/models.py (tcn, tcn_stft, *)
(* tcn_tcn and the registry model_dict) and the training driver train() of *)
(* src/das/train.py.                                                       *)
(*                                                                         *)
(* Encodings.  A Python Optional is a set: None is {} and a value v is     *)
(* {v}.  A Python str that the code concatenates is a sequence of tokens   *)
(* ('' is <<>>).  A dict is a function on its keys.  Learning rates are    *)
(* integers in units of 1e-4, and Optional wherever they appear, the       *)
(* builders' default included.  A tensor is its shape without the batch    *)
(* axis, the list of layers applied so far, and whether every layer        *)
(* accepted its input.                                                     *)
(***************************************************************************)
EXTENDS Integers, Sequences, FiniteSets, TLC

VARIABLES pc, locals, params, d, effects, model, fs, callbacks, poseidon,
          logged, fit, ret

vars == <<pc, locals, params, d, effects, model, fs, callbacks, poseidon,
          logged, fit, ret>>

(***************************************************************************)
(* Bounds of the model.                                                    *)
(***************************************************************************)
MaxHist == 4
MaxBuildHist == 8
MaxPreConv == 2
MaxEpoch == 2
MaxLoss == 2
MaxClasses == 2
MaxKernel == 2
MaxConv == 2

(***************************************************************************)
(* Generic helpers.                                                        *)
(***************************************************************************)
None == {}
Some(v) == {v}
Val(o) == CHOOSE v \in o : TRUE

\* A keyword argument with a default: the passed value, else the default.
Arg(p, k, default) == IF k \in DOMAIN p THEN p[k] ELSE default

\* del dict[k]
Del(dict, k) == [x \in DOMAIN dict \ {k} |-> dict[x]]

\* dict.update(other): other's entries win.
Update(dict, other) == other @@ dict

RECURSIVE Pow2(_)
Pow2(n) == IF n = 0 THEN 1 ELSE 2 * Pow2(n - 1)

CeilDiv(a, b) == (a + b - 1) \div b

Last(s) == s[Len(s)]

(***************************************************************************)
(* Layers, as the builders use them.                                       *)
(***************************************************************************)
Tensor(shape, layers, ok) == [shape |-> shape, layers |-> layers, ok |-> ok]

Input(nb_hist, nb_freq) == Tensor(<<nb_hist, nb_freq>>, <<"Input">>, TRUE)

\* Trainable STFT: one frame per n_hop samples, n_dft \div 2 + 1 frequencies.
Spectrogram(x, n_dft, n_hop) ==
    Tensor(<<CeilDiv(x.shape[1], n_hop), n_dft \div 2 + 1, x.shape[2]>>,
           Append(x.layers, "Spectrogram"), x.ok)

\* kl.Reshape((out.shape[1], out.shape[2] * out.shape[3]))
Reshape(x) ==
    Tensor(<<x.shape[1], x.shape[2] * x.shape[3]>>, Append(x.layers, "Reshape"), x.ok)

\* The TCN block keeps the sequence length; without return_sequences it
\* returns the last time step only.
TCN(x, nb_filters, return_sequences, name) ==
    Tensor(IF return_sequences THEN <<x.shape[1], nb_filters>> ELSE <<nb_filters>>,
           Append(x.layers, name), x.ok /\ Len(x.shape) = 2)

\* kl.MaxPooling1D(pool_size, strides), padding 'valid': a sequence shorter
\* than the pool is rejected.
MaxPooling1D(x, pool_size, strides) ==
    IF Len(x.shape) = 2 /\ x.shape[1] >= pool_size
    THEN Tensor(<<(x.shape[1] - pool_size) \div strides + 1, x.shape[2]>>,
                Append(x.layers, "MaxPooling1D"), x.ok)
    ELSE Tensor(x.shape, Append(x.layers, "MaxPooling1D"), FALSE)

\* kl.Bidirectional(kl.LSTM(units, return_sequences=True)): needs a sequence.
BidirectionalLSTM(x, units) ==
    IF Len(x.shape) = 2
    THEN Tensor(<<x.shape[1], 2 * units>>, Append(x.layers, "Bidirectional"), x.ok)
    ELSE Tensor(x.shape, Append(x.layers, "Bidirectional"), FALSE)

\* Dense with the units left out: the last axis is kept.
DenseMutant(x, units) == Tensor(x.shape, Append(x.layers, "Dense"), x.ok)

\* kl.Dense(units): the last axis becomes units.
Dense(x, units) ==
    Tensor([x.shape EXCEPT ![Len(x.shape)] = units], Append(x.layers, "Dense"), x.ok)

\* kl.Activation('softmax')
Softmax(x) == Tensor(x.shape, Append(x.layers, "Activation"), x.ok)

\* UpSampling1D repeating each time step once too often.
UpSampling1DMutant(x, size) ==
    IF Len(x.shape) = 2
    THEN Tensor(<<x.shape[1] * (size + 1), x.shape[2]>>, Append(x.layers, "UpSampling1D"), x.ok)
    ELSE Tensor(x.shape, Append(x.layers, "UpSampling1D"), FALSE)

\* kl.UpSampling1D(size): repeats every time step size times; needs a sequence.
UpSampling1D(x, size) ==
    IF Len(x.shape) = 2
    THEN Tensor(<<x.shape[1] * size, x.shape[2]>>, Append(x.layers, "UpSampling1D"), x.ok)
    ELSE Tensor(x.shape, Append(x.layers, "UpSampling1D"), FALSE)

\* keras.models.Model(input_layer, output_layer, name='TCN') and model.compile(
\* Adam(lr=learning_rate, amsgrad=True, clipnorm=1.), loss, sample_weight_mode).
\* weights = 0 are the initial weights; weights = e those after epoch e.
Compile(input_layer, output_layer, learning_rate, loss, sample_weight_mode) ==
    [name |-> "TCN", ok |-> output_layer.ok,
     input_shape |-> input_layer.shape, output_shape |-> output_layer.shape,
     layers |-> output_layer.layers,
     lr |-> learning_rate, amsgrad |-> TRUE, clipnorm |-> 1,
     loss |-> loss, sample_weight_mode |-> sample_weight_mode,
     weights |-> 0]

(***************************************************************************)
(* The builders.  p is the keyword dictionary of the call.                 *)
(***************************************************************************)
DefaultLearningRate == 5

\* The frontend without its nb_pre_conv > 0 condition.
tcn_stft_frontend_mutant(x, nb_pre_conv, pre_nb_dft) ==
    Reshape(Spectrogram(x, pre_nb_dft, Pow2(nb_pre_conv)))

tcn_stft_frontend(x, nb_pre_conv, pre_nb_dft) ==
    IF nb_pre_conv > 0
    THEN Reshape(Spectrogram(x, pre_nb_dft, Pow2(nb_pre_conv)))
    ELSE x

tcn_stft(p) ==
    LET nb_pre_conv == Arg(p, "nb_pre_conv", 0)
        nb_lstm_units == Arg(p, "nb_lstm_units", 0)
        input_layer == Input(Arg(p, "nb_hist", 1), p.nb_freq)
        out == tcn_stft_frontend(input_layer, nb_pre_conv, Arg(p, "pre_nb_dft", 64))
        x1 == TCN(out, Arg(p, "nb_filters", 16), Arg(p, "return_sequences", TRUE), "TCN")
        x2 == IF nb_lstm_units > 0 THEN BidirectionalLSTM(x1, nb_lstm_units) ELSE x1
        x3 == Softmax(Dense(x2, p.nb_classes))
        x4 == IF nb_pre_conv > 0 /\ Arg(p, "upsample", TRUE)
              THEN UpSampling1D(x3, Pow2(nb_pre_conv))
              ELSE x3
    IN  Compile(input_layer, x4, Arg(p, "learning_rate", Some(DefaultLearningRate)),
                Arg(p, "loss", "categorical_crossentropy"),
                Arg(p, "sample_weight_mode", None))

\* A synonym that loses the nb_pre_conv argument on the way.
tcn_mutant(p) == tcn_stft(Del(p, "nb_pre_conv"))

\* Synonym for tcn_stft.
tcn(p) == tcn_stft(p)

tcn_tcn(p) ==
    LET nb_pre_conv == Arg(p, "nb_pre_conv", 0)
        nb_filters == Arg(p, "nb_filters", 16)
        return_sequences == Arg(p, "return_sequences", TRUE)
        input_layer == Input(Arg(p, "nb_hist", 1), p.nb_freq)
        out == IF nb_pre_conv > 0
               THEN MaxPooling1D(TCN(input_layer, nb_filters, return_sequences, "frontend"),
                                 Pow2(nb_pre_conv), Pow2(nb_pre_conv))
               ELSE input_layer
        x1 == TCN(out, nb_filters, return_sequences, "TCN")
        x3 == Softmax(Dense(x1, p.nb_classes))
        x4 == IF nb_pre_conv > 0 /\ Arg(p, "upsample", TRUE)
              THEN UpSampling1D(x3, Pow2(nb_pre_conv))
              ELSE x3
    IN  Compile(input_layer, x4, Arg(p, "learning_rate", Some(DefaultLearningRate)),
                Arg(p, "loss", "categorical_crossentropy"),
                Arg(p, "sample_weight_mode", None))

\* The decorator: model_dict[func.__name__] = func.  A function is named by
\* its __name__.
register_as_model(dict, func) == (func :> func) @@ dict

\* The registry after models.py is imported: the three decorated functions.
model_dict ==
    register_as_model(register_as_model(register_as_model(<<>>, "tcn"), "tcn_stft"), "tcn_tcn")

\* Calling a registered function.
Call(func, p) ==
    CASE func = "tcn" -> tcn(p)
      [] func = "tcn_stft" -> tcn_stft(p)
      [] func = "tcn_tcn" -> tcn_tcn(p)

ModelNames == {"tcn", "tcn_stft", "tcn_tcn"}

NoModel == [name |-> "none", ok |-> FALSE]


(***************************************************************************)
(* train(): the values it reads from outside.                              *)
(***************************************************************************)
\* val_loss of an epoch: 1..MaxLoss, or NaN.  Inf is ModelCheckpoint's and
\* EarlyStopping's initial best.  Every comparison with NaN is false.
Inf == MaxLoss + 1
NaN == MaxLoss + 2
LossVals == (1..MaxLoss) \cup {NaN}
Less(a, b) == a # NaN /\ b # NaN /\ a < b

Patience == 20

ClassNames == {<<"noise">>} \cup
              {[i \in 1..n |-> IF i = 1 THEN "noise" ELSE "song"] : n \in 2..MaxClasses}

NotLoaded == [loaded |-> FALSE, attrs |-> <<>>, nb_freq |-> 0, test_len |-> 0]

\* The datasets a call with chunk size nb_hist may load: the test split is
\* one sample short of a chunk, or exactly one chunk.
Datasets(nb_hist) ==
    [loaded : {TRUE}, attrs : {[class_names |-> c] : c \in ClassNames},
     nb_freq : {1}, test_len : {nb_hist - 1, nb_hist}]

\* The keyword arguments of a call of train(); what is not listed keeps the
\* default of the signature.
TrainCall(sp, mn, ks, nc, nh, ib, npc, ne, lr, tok, prj, wyh) ==
    [data_dir |-> "dat", save_dir |-> "res", save_prefix |-> sp,
     model_name |-> mn, nb_filters |-> 16, kernel_size |-> ks, nb_conv |-> nc,
     nb_hist |-> nh, ignore_boundaries |-> ib, nb_pre_conv |-> npc, pre_nb_dft |-> 64,
     nb_lstm_units |-> 0, nb_epoch |-> ne, learning_rate |-> lr,
     neptune_api_token |-> tok, neptune_project |-> prj,
     with_y_hist |-> wyh, version_data |-> TRUE] @@ ("_qt_progress" :> FALSE)

\* Calls that vary what the stride is computed from.
StrideCalls ==
    {TrainCall(None, "tcn", ks, nc, nh, ib, 0, 1, None, None, None, wyh) :
        ks \in 1..MaxKernel, nc \in 1..MaxConv, nh \in 1..MaxHist,
        ib \in BOOLEAN, wyh \in BOOLEAN}

\* Calls that vary the model, the optional stages and the integrations, on
\* chunks made of whole pooling blocks.
RunCalls ==
    {TrainCall(sp, mn, 1, 1, nh, ib, npc, ne, lr, tok, prj, wyh) :
        sp \in {None, Some(<<"run">>)}, mn \in ModelNames,
        nh \in {h \in 1..MaxHist : h % 2 = 0}, ib \in BOOLEAN,
        npc \in 0..1, ne \in 0..MaxEpoch, lr \in {None, Some(3)},
        tok \in {None, Some("token")}, prj \in {None, Some("project")},
        wyh \in BOOLEAN}

TrainArgs == StrideCalls \cup RunCalls

\* The keyword arguments of a direct call of a builder.
BuildArgs ==
    {[nb_freq |-> 1, nb_classes |-> ncl, nb_hist |-> nh, nb_pre_conv |-> npc,
      nb_lstm_units |-> lstm, upsample |-> up, return_sequences |-> rs] :
        ncl \in 1..MaxClasses, nh \in 1..MaxBuildHist, npc \in 0..MaxPreConv,
        lstm \in {0, 3}, up \in BOOLEAN, rs \in BOOLEAN}

NoFit == [epoch |-> 0, best |-> Inf, wait |-> 0, stop |-> FALSE, history |-> <<>>]
NoPoseidon == [bound |-> FALSE, params |-> <<>>, test_results |-> FALSE]
NoRet == [kind |-> "none", value |-> "none"]

\* Python truth value of an Optional[str].
Truthy(o) == o # None /\ Val(o) # ""

(***************************************************************************)
(* Initial states: a call of train(), or a direct call of a builder.       *)
(***************************************************************************)
InitCommon ==
    /\ d = NotLoaded
    /\ effects = {}
    /\ model = NoModel
    /\ fs = <<>>
    /\ callbacks = <<>>
    /\ poseidon = NoPoseidon
    /\ logged = {}
    /\ fit = NoFit
    /\ ret = NoRet

InitTrain ==
    /\ pc = "call"
    /\ locals \in TrainArgs
    /\ params = <<>>
    /\ InitCommon

InitBuild ==
    /\ pc = "build_call"
    /\ locals \in [func : ModelNames]
    /\ params \in BuildArgs
    /\ InitCommon

Init == InitTrain \/ InitBuild

(***************************************************************************)
(* A direct call of a registered builder with keyword arguments params.    *)
(***************************************************************************)
BuildDirect ==
    /\ pc = "build_call"
    /\ model' = Call(model_dict[locals.func], params)
    /\ pc' = IF model'.ok THEN "build_done" ELSE "build_raised"
    /\ UNCHANGED <<locals, params, d, effects, fs, callbacks, poseidon, logged, fit, ret>>

(***************************************************************************)
(* train(), lines 136-163: stride and the parameter dictionary.            *)
(***************************************************************************)
\* int(np.ceil(x)): kernel_size and nb_conv are ints, and so is their
\* product, which np.ceil and int leave as it is.
int_ceil(x) == x

\* int(round(n / 2)): Python rounds halves to even.
RoundHalf(n) ==
    LET q == n \div 2
    IN  IF n % 2 = 0 THEN q ELSE IF q % 2 = 0 THEN q ELSE q + 1

data_padding_of(a) ==
    IF a.with_y_hist /\ a.ignore_boundaries THEN int_ceil(a.kernel_size * a.nb_conv) ELSE 0

stride_of(a) ==
    IF a.with_y_hist
    THEN a.nb_hist - 2 * data_padding_of(a)
    ELSE 1

Setup ==
    /\ pc = "call"
    /\ LET a == locals
           save_prefix0 == IF a.save_prefix = None THEN <<>> ELSE Val(a.save_prefix)
           save_prefix1 == IF Len(save_prefix0) > 0 THEN save_prefix0 \o <<"_">> ELSE save_prefix0
           l == [sample_weight_mode |-> IF a.with_y_hist THEN Some("temporal") ELSE None,
                 data_padding |-> data_padding_of(a),
                 return_sequences |-> a.with_y_hist,
                 stride |-> stride_of(a),
                 y_offset |-> IF a.with_y_hist THEN 0 ELSE RoundHalf(a.nb_hist),
                 output_stride |-> 1,
                 save_prefix |-> save_prefix1] @@ a
       IN  /\ locals' = l
           /\ params' = Del(l, "_qt_progress")
    /\ pc' = "check_stride"
    /\ UNCHANGED <<d, effects, model, fs, callbacks, poseidon, logged, fit, ret>>

Raise(exc) ==
    /\ pc' = "raised"
    /\ ret' = [kind |-> "raise", value |-> exc]

\* The check with < in place of <=.
stride_rejected_mutant(stride) == stride < 0

\* Lines 165-166.
stride_rejected(stride) == stride <= 0

\* The check placed after the dataset is loaded.
CheckStrideLate ==
    /\ pc = "check_stride"
    /\ IF stride_rejected(locals.stride)
       THEN /\ Raise("ValueError: Stride <=0")
            /\ \E ds \in Datasets(locals.nb_hist) : d' = ds
            /\ effects' = effects \cup {"load"}
       ELSE pc' = "load" /\ UNCHANGED <<ret, d, effects>>
    /\ UNCHANGED <<locals, params, model, fs, callbacks, poseidon, logged, fit>>

CheckStride ==
    /\ pc = "check_stride"
    /\ IF stride_rejected(locals.stride)
       THEN Raise("ValueError: Stride <=0")
       ELSE pc' = "load" /\ ret' = ret
    /\ UNCHANGED <<locals, params, d, effects, model, fs, callbacks, poseidon, logged, fit>>


(***************************************************************************)
(* Lines 168-245: the dataset and the entries it adds to params.           *)
(***************************************************************************)
\* 'nb_classes': len(params['class_names'])
nb_classes_of(p) == Len(p.class_names)

\* Lines 168-170: remove learning rate param if not set so the value from
\* the model def is used.
drop_unset_learning_rate(p) ==
    IF p.learning_rate = None THEN Del(p, "learning_rate") ELSE p

LoadData ==
    /\ pc = "load"
    /\ \E ds \in Datasets(locals.nb_hist) :
        /\ d' = ds
        /\ LET p1 == drop_unset_learning_rate(params)
               p2 == Update(p1, ds.attrs)
               p3 == IF locals.version_data THEN Update(p2, [data_hash |-> "md5"]) ELSE p2
               p4 == Update(p3, [nb_freq |-> ds.nb_freq, nb_channels |-> ds.nb_freq,
                                 nb_classes |-> nb_classes_of(p3),
                                 first_sample_train |-> 0, last_sample_train |-> None,
                                 first_sample_val |-> 0, last_sample_val |-> None])
           IN  params' = Update(p4, [class_weights |-> None])
    /\ effects' = effects \cup {"load"} \cup (IF locals.version_data THEN {"hash"} ELSE {})
    /\ pc' = "build"
    /\ UNCHANGED <<locals, model, fs, callbacks, poseidon, logged, fit, ret>>

\* Lines 247-250: models.model_dict[model_name](**params).  A layer that
\* rejects its input raises out of train().
BuildModel ==
    /\ pc = "build"
    /\ LET m == Call(model_dict[locals.model_name], params)
       IN  IF m.ok
           THEN model' = m /\ pc' = "save_params" /\ ret' = ret
           ELSE model' = model /\ Raise("ValueError: layer input")
    /\ UNCHANGED <<locals, params, d, effects, fs, callbacks, poseidon, logged, fit>>

(***************************************************************************)
(* Lines 251-259: the output names, the parameters file, the callbacks.    *)
(***************************************************************************)
File(base, suffix) == [base |-> base, suffix |-> suffix]

\* '{0}/{1}{2}'.format(save_dir, save_prefix, time.strftime(...))
save_name_of(l) == [dir |-> l.save_dir, prefix |-> l.save_prefix, time |-> "now"]

\* utils.save_params(params, save_name): the parameters file of the run.
save_params(files, p, save_name) == (File(save_name, "_params.yaml") :> [params |-> p]) @@ files

checkpoint_save_name_of(save_name) == File(save_name, "_model.h5")

SaveParams ==
    /\ pc = "save_params"
    /\ LET save_name == save_name_of(locals)
       IN  /\ fs' = save_params(fs, params, save_name)
           /\ locals' = [save_name |-> save_name,
                         checkpoint_save_name |-> checkpoint_save_name_of(save_name)] @@ locals
    /\ effects' = effects \cup {"makedirs"}
    /\ callbacks' = <<"ModelCheckpoint", "EarlyStopping">>
    /\ pc' = "neptune"
    /\ UNCHANGED <<params, d, model, poseidon, logged, fit, ret>>

(***************************************************************************)
(* Lines 270-279: the experiment tracker.                                  *)
(***************************************************************************)
NeptuneOutcomes == {"no_neptune", "ctor_raises", "ok"}

Neptune ==
    /\ pc = "neptune"
    /\ LET p == Del(params, "neptune_api_token")
       IN  /\ params' = p
           /\ IF Truthy(locals.neptune_api_token) /\ Truthy(locals.neptune_project)
              THEN \E o \in NeptuneOutcomes :
                     CASE o = "no_neptune" ->
                            /\ logged' = logged \cup {"Could not import neptune in das.neptune."}
                            /\ UNCHANGED <<poseidon, callbacks>>
                       [] o = "ctor_raises" ->
                            /\ logged' = logged \cup {"Neptune stuff failed."}
                            /\ UNCHANGED <<poseidon, callbacks>>
                       [] o = "ok" ->
                            /\ poseidon' = [bound |-> TRUE, params |-> p, test_results |-> FALSE]
                            /\ callbacks' = Append(callbacks, "poseidon")
                            /\ UNCHANGED logged
              ELSE UNCHANGED <<poseidon, callbacks, logged>>
    /\ pc' = "fit"
    /\ UNCHANGED <<locals, d, effects, model, fs, fit, ret>>

(***************************************************************************)
(* Lines 283-291: model.fit with ModelCheckpoint(save_best_only=True,      *)
(* monitor='val_loss') and EarlyStopping(monitor='val_loss', patience=20). *)
(***************************************************************************)
\* save_best_only left out: every epoch counts as an improvement.
improved_mutant(v, best) == TRUE

\* monitor_op of both callbacks: np.less(current, best).
improved(v, best) == Less(v, best)

\* ModelCheckpoint saving the model: the file holds the current weights.
checkpoint_save(files, name, m) == (name :> [weights |-> m.weights]) @@ files

FitEpoch ==
    /\ pc = "fit"
    /\ fit.epoch < locals.nb_epoch
    /\ ~fit.stop
    /\ \E v \in LossVals :
        LET e == fit.epoch + 1
            better == improved(v, fit.best)
            wait == IF better THEN 0 ELSE fit.wait + 1
            m == [model EXCEPT !.weights = e]
        IN  /\ fit' = [epoch |-> e, best |-> IF better THEN v ELSE fit.best,
                       wait |-> wait, stop |-> wait >= Patience,
                       history |-> Append(fit.history, v)]
            /\ model' = m
            /\ fs' = IF better THEN checkpoint_save(fs, locals.checkpoint_save_name, m) ELSE fs
    /\ UNCHANGED <<pc, locals, params, d, effects, callbacks, poseidon, logged, ret>>

FitEnd ==
    /\ pc = "fit"
    /\ fit.epoch = locals.nb_epoch \/ fit.stop
    /\ pc' = "test"
    /\ UNCHANGED <<locals, params, d, effects, model, fs, callbacks, poseidon, logged, fit, ret>>

(***************************************************************************)
(* Lines 293-331: the final evaluation and the results bundle.             *)
(***************************************************************************)
\* len(d['test']['x']) < nb_hist
skip_test(test_len, nb_hist) == test_len < nb_hist

Test ==
    /\ pc = "test"
    /\ IF skip_test(d.test_len, locals.nb_hist)
       THEN /\ pc' = "returned"
            /\ ret' = [kind |-> "return", value |-> "None"]
            /\ model' = model
       ELSE IF locals.checkpoint_save_name \in DOMAIN fs
            THEN /\ model' = [model EXCEPT !.weights = fs[locals.checkpoint_save_name].weights]
                 /\ pc' = "evaluate"
                 /\ ret' = ret
            ELSE /\ Raise("OSError: no checkpoint file")
                 /\ model' = model
    /\ UNCHANGED <<locals, params, d, effects, fs, callbacks, poseidon, logged, fit>>

\* Lines 301-313: predictions, confusion matrix and report; the report goes
\* to the tracker when token and project are set.
Evaluate ==
    /\ pc = "evaluate"
    /\ IF Truthy(locals.neptune_api_token) /\ Truthy(locals.neptune_project)
       THEN IF poseidon.bound
            THEN /\ poseidon' = [poseidon EXCEPT !.test_results = TRUE]
                 /\ pc' = "save_results"
                 /\ ret' = ret
            ELSE /\ Raise("UnboundLocalError: poseidon")
                 /\ poseidon' = poseidon
       ELSE /\ pc' = "save_results"
            /\ UNCHANGED <<poseidon, ret>>
    /\ UNCHANGED <<locals, params, d, effects, model, fs, callbacks, logged, fit>>

\* The results bundle named without the save_prefix.
results_file_mutant(save_name) == File([save_name EXCEPT !.prefix = <<>>], "_results.h5")

\* "{0}_results.h5".format(save_name)
results_file(save_name) == File(save_name, "_results.h5")

\* Lines 315-331: fl.save(save_filename, d); return model, params.
SaveResults ==
    /\ pc = "save_results"
    /\ fs' = (results_file(locals.save_name) :>
                [fit_hist |-> fit.history, confusion_matrix |-> "conf_mat",
                 classification_report |-> "report", params |-> params]) @@ fs
    /\ pc' = "returned"
    /\ ret' = [kind |-> "return", value |-> "model, params"]
    /\ UNCHANGED <<locals, params, d, effects, model, callbacks, poseidon, logged, fit>>

Next ==
    \/ BuildDirect
    \/ Setup
    \/ CheckStride
    \/ LoadData
    \/ BuildModel
    \/ SaveParams
    \/ Neptune
    \/ FitEpoch
    \/ FitEnd
    \/ Test
    \/ Evaluate
    \/ SaveResults

Spec == Init /\ [][Next]_vars


(***************************************************************************)
(* Vocabulary of the properties.                                           *)
(***************************************************************************)
\* The state belongs to a call of train() / to a direct call of a builder.
InTrain == "model_name" \in DOMAIN locals
InBuild == "func" \in DOMAIN locals

\* train() has passed the stride check (lines 165-166), one way or the other.
PastStrideCheck == InTrain /\ pc \notin {"call", "check_stride"}

StrideError == [kind |-> "raise", value |-> "ValueError: Stride <=0"]

NeptuneRequested == Truthy(locals.neptune_api_token) /\ Truthy(locals.neptune_project)

TestSplitLongEnough == d.test_len >= locals.nb_hist

ParamsFileName == File(locals.save_name, "_params.yaml")
CheckpointFileName == File(locals.save_name, "_model.h5")
ResultsFileName == File(locals.save_name, "_results.h5")

\* Some epoch of the history reported a val_loss that is a number.
SomeLoss(h) == \E e \in 1..Len(h) : h[e] # NaN

\* The first epoch with the lowest val_loss of the history.
BestEpoch(h) ==
    CHOOSE e \in 1..Len(h) :
        /\ h[e] # NaN
        /\ \A j \in 1..Len(h) : h[j] # NaN => (h[e] < h[j] \/ (h[e] = h[j] /\ e <= j))

Has(layers, name) == \E i \in 1..Len(layers) : layers[i] = name

\* The place of a layer in the fixed order frontend, TCN, LSTM, dense,
\* softmax, upsampling.
Rank(name) ==
    CASE name = "Input" -> 0
      [] name \in {"Spectrogram", "frontend"} -> 1
      [] name \in {"Reshape", "MaxPooling1D"} -> 2
      [] name = "TCN" -> 3
      [] name = "Bidirectional" -> 4
      [] name = "Dense" -> 5
      [] name = "Activation" -> 6
      [] name = "UpSampling1D" -> 7

(***************************************************************************)
(* C1.  train() raises the stride ValueError exactly when the computed     *)
(* stride is <= 0, the stride being nb_hist - 2*ceil(kernel_size*nb_conv)  *)
(* with with_y_hist and ignore_boundaries, nb_hist with with_y_hist alone, *)
(* and 1 without with_y_hist; every other configuration passes the check.  *)
(***************************************************************************)
C1_Stride ==
    IF locals.with_y_hist /\ locals.ignore_boundaries
    THEN locals.nb_hist - 2 * (locals.kernel_size * locals.nb_conv)
    ELSE IF locals.with_y_hist THEN locals.nb_hist ELSE 1

C1_StrideRejectedIffNotPositive ==
    PastStrideCheck => /\ locals.stride = C1_Stride
                       /\ (ret = StrideError) <=> (C1_Stride <= 0)
                       /\ (ret = StrideError) => pc = "raised"

C1_Witness ==
    /\ InTrain /\ pc = "raised" /\ ret = StrideError
    /\ locals.with_y_hist /\ locals.ignore_boundaries
    /\ locals.stride = 0

(***************************************************************************)
(* C2.  With neptune_api_token and neptune_project set, a missing tracker  *)
(* dependency or a failing tracker constructor is only logged: train()     *)
(* never raises because of the tracker, and a run whose fit ended, whose   *)
(* test split is long enough and whose checkpoint exists goes on to write  *)
(* the results bundle.                                                     *)
(***************************************************************************)
C2_TrackerFailsSoft ==
    (InTrain /\ pc = "raised" /\ NeptuneRequested /\ logged # {})
        => ret.value # "UnboundLocalError: poseidon"

(***************************************************************************)
(* C3.  Every call of train() that returns has written the parameters     *)
(* file, the checkpoint and the results bundle under one base name, for    *)
(* every size of the test split and every nb_epoch.                        *)
(***************************************************************************)
C3_AllThreeFilesWritten ==
    (InTrain /\ pc = "returned")
        => {ParamsFileName, CheckpointFileName, ResultsFileName} \subseteq DOMAIN fs

\* C3 as amended: a call that returns has written the parameters file; it
\* has written the results bundle (fit history, confusion matrix, report)
\* exactly when the test split is at least nb_hist long, and then the
\* checkpoint too; a checkpoint exists exactly when some epoch reported a
\* val_loss that is a number; all files carry the one base name.
C3_FilesOfAReturnedCall ==
    (InTrain /\ pc = "returned") =>
        /\ ParamsFileName \in DOMAIN fs
        /\ ResultsFileName \in DOMAIN fs <=> TestSplitLongEnough
        /\ TestSplitLongEnough =>
             /\ CheckpointFileName \in DOMAIN fs
             /\ {"fit_hist", "confusion_matrix", "classification_report"}
                    \subseteq DOMAIN fs[ResultsFileName]
             /\ fs[ResultsFileName].fit_hist = fit.history
        /\ CheckpointFileName \in DOMAIN fs <=> SomeLoss(fit.history)
        /\ \A f \in DOMAIN fs : f.base = locals.save_name

C3_Witness ==
    /\ InTrain /\ pc = "returned"
    /\ {ParamsFileName, CheckpointFileName, ResultsFileName} \subseteq DOMAIN fs
    /\ locals.save_prefix = <<"run", "_">>
    /\ locals.nb_epoch = MaxEpoch

(***************************************************************************)
(* C4.  Every call of train() that returns returns the pair (model,        *)
(* params), whatever the length of the test split.                         *)
(***************************************************************************)
C4_ReturnsModelAndParams ==
    (InTrain /\ pc = "returned") => ret.value = "model, params"

(***************************************************************************)
(* C5.  tcn_tcn with nb_pre_conv = n > 0 and upsample=True: the output     *)
(* sequence is as long as the input, nb_hist, for every nb_hist >= 2**n.   *)
(***************************************************************************)
BuiltTcnTcn ==
    /\ InBuild /\ pc = "build_done" /\ locals.func = "tcn_tcn"
    /\ params.return_sequences

C5_OutputLengthIsInputLength ==
    (BuiltTcnTcn /\ params.nb_pre_conv > 0 /\ params.upsample
        /\ params.nb_hist >= Pow2(params.nb_pre_conv))
        => model.output_shape[1] = params.nb_hist

\* C5 as amended: the frontend shortens the sequence to nb_hist \div 2**n
\* (whole pooling blocks only); with upsample=True the output length is
\* 2**n * (nb_hist \div 2**n), which is nb_hist exactly when nb_hist is a
\* multiple of 2**n; with upsample=False it stays nb_hist \div 2**n; with
\* n = 0 it is nb_hist.
C5_OutputLength ==
    BuiltTcnTcn =>
        LET n == params.nb_pre_conv
            blocks == params.nb_hist \div Pow2(n)
        IN  /\ model.output_shape[1] =
                 IF n > 0 /\ params.upsample THEN Pow2(n) * blocks
                 ELSE IF n > 0 THEN blocks
                 ELSE params.nb_hist
            /\ (n > 0 /\ params.upsample) =>
                 (model.output_shape[1] = params.nb_hist <=> params.nb_hist % Pow2(n) = 0)

C5_Witness ==
    /\ BuiltTcnTcn /\ params.nb_pre_conv = 2 /\ params.upsample
    /\ params.nb_hist = 7 /\ model.output_shape[1] = 4

(***************************************************************************)
(* C6.  For every builder and every combination of nb_pre_conv,            *)
(* nb_lstm_units and upsample the last dimension of the model output is    *)
(* nb_classes, and train() passes nb_classes = the number of class_names   *)
(* of the dataset attributes.                                              *)
(***************************************************************************)
C6_OutputHasNbClasses ==
    /\ (InBuild /\ pc = "build_done") => Last(model.output_shape) = params.nb_classes
    /\ (InTrain /\ model.ok) =>
         /\ params.nb_classes = Len(d.attrs.class_names)
         /\ Last(model.output_shape) = Len(d.attrs.class_names)

C6_Witness ==
    /\ InBuild /\ pc = "build_done" /\ locals.func = "tcn_stft"
    /\ params.nb_pre_conv > 0 /\ params.nb_lstm_units > 0 /\ params.upsample
    /\ params.nb_classes = MaxClasses
    /\ Last(model.output_shape) = MaxClasses

(***************************************************************************)
(* C7.  With learning_rate=None the model is built with the per-model      *)
(* default of the docstring of train(), 0.0001 for 'tcn' and 0.0005 for    *)
(* 'tcn_stft'; a given learning_rate is used as it is.                     *)
(***************************************************************************)
DocTcnLearningRate == 1
DocTcnStftLearningRate == 5

C7_LearningRateAsDocumented ==
    (InTrain /\ model.ok) =>
        model.lr = IF locals.learning_rate # None THEN locals.learning_rate
                   ELSE CASE locals.model_name = "tcn" -> Some(DocTcnLearningRate)
                          [] locals.model_name = "tcn_stft" -> Some(DocTcnStftLearningRate)
                          [] OTHER -> model.lr

C9_CheckpointExistsAtEvaluation ==
    (InTrain /\ pc = "test" /\ TestSplitLongEnough) =>
        /\ CheckpointFileName \in DOMAIN fs
        /\ fs[CheckpointFileName].weights = BestEpoch(fit.history)

\* C9 as amended: the checkpoint file is written only when val_loss improves,
\* so whenever it exists it holds the weights of the first epoch with the
\* lowest val_loss seen, and the evaluation runs on those weights, not on
\* the last epoch's; it exists exactly when some epoch reported a val_loss
\* that is a number: with nb_epoch = 0, or only NaN losses, there is none
\* and reloading it raises before the evaluation.
C9_CheckpointIsBestEpoch ==
    (InTrain /\ "checkpoint_save_name" \in DOMAIN locals) =>
        /\ CheckpointFileName \in DOMAIN fs <=> SomeLoss(fit.history)
        /\ CheckpointFileName \in DOMAIN fs =>
             fs[CheckpointFileName].weights = BestEpoch(fit.history)
        /\ pc \in {"evaluate", "save_results"} =>
             /\ SomeLoss(fit.history)
             /\ model.weights = BestEpoch(fit.history)
        /\ ret.value = "OSError: no checkpoint file" =>
             TestSplitLongEnough /\ ~SomeLoss(fit.history)
        /\ (pc = "test" /\ TestSplitLongEnough /\ ~SomeLoss(fit.history)) =>
             CheckpointFileName \notin DOMAIN fs

C9_Witness ==
    /\ InTrain /\ pc = "evaluate"
    /\ Len(fit.history) = 2 /\ fit.history[1] = 1 /\ fit.history[2] = 2
    /\ model.weights = 1

(***************************************************************************)
(* C10.  In a built model the frontend (STFT in tcn_stft, TCN and max-pool *)
(* in tcn_tcn) is present iff nb_pre_conv > 0, the bidirectional LSTM iff  *)
(* the builder is tcn_stft (or its synonym) and nb_lstm_units > 0, the     *)
(* upsampling layer iff nb_pre_conv > 0 and upsample; the layers come in   *)
(* the order frontend, TCN, LSTM, dense, softmax, upsampling, and there is *)
(* no upsampling without a frontend.                                       *)
(***************************************************************************)
HasFrontend(func, layers) ==
    IF func = "tcn_tcn"
    THEN Has(layers, "frontend") /\ Has(layers, "MaxPooling1D")
    ELSE Has(layers, "Spectrogram") /\ Has(layers, "Reshape")

HasFrontendLayer(layers) ==
    \E i \in 1..Len(layers) : Rank(layers[i]) \in {1, 2}

LayersAsConfigured(func, p, layers) ==
    /\ HasFrontend(func, layers) <=> Arg(p, "nb_pre_conv", 0) > 0
    /\ HasFrontendLayer(layers) <=> Arg(p, "nb_pre_conv", 0) > 0
    /\ Has(layers, "Bidirectional") <=> (func # "tcn_tcn" /\ Arg(p, "nb_lstm_units", 0) > 0)
    /\ Has(layers, "UpSampling1D") <=> (Arg(p, "nb_pre_conv", 0) > 0 /\ Arg(p, "upsample", TRUE))
    /\ Has(layers, "UpSampling1D") => HasFrontendLayer(layers)
    /\ Has(layers, "TCN") /\ Has(layers, "Dense") /\ Has(layers, "Activation")
    /\ layers[1] = "Input"
    /\ \A i \in 1..(Len(layers) - 1) : Rank(layers[i]) < Rank(layers[i + 1])

C10_LayersAsConfigured ==
    /\ (InBuild /\ pc = "build_done") => LayersAsConfigured(locals.func, params, model.layers)
    /\ (InTrain /\ model.ok) => LayersAsConfigured(locals.model_name, params, model.layers)

C10_Witness ==
    /\ InBuild /\ pc = "build_done" /\ locals.func = "tcn_stft"
    /\ params.nb_pre_conv > 0 /\ params.nb_lstm_units > 0 /\ params.upsample
    /\ model.layers = <<"Input", "Spectrogram", "Reshape", "TCN", "Bidirectional",
                        "Dense", "Activation", "UpSampling1D">>

(***************************************************************************)
(* C11.  The neptune API token is never persisted or handed on: the        *)
(* parameter dictionary written to the parameters file, written into the   *)
(* results bundle, or passed to the experiment tracker has no              *)
(* 'neptune_api_token' entry.                                              *)
(***************************************************************************)
C11_TokenNeverWritten ==
    (InTrain /\ "save_name" \in DOMAIN locals) =>
        /\ ParamsFileName \in DOMAIN fs =>
             "neptune_api_token" \notin DOMAIN fs[ParamsFileName].params
        /\ ResultsFileName \in DOMAIN fs =>
             "neptune_api_token" \notin DOMAIN fs[ResultsFileName].params
        /\ poseidon.bound => "neptune_api_token" \notin DOMAIN poseidon.params

(***************************************************************************)
(* C12.  A configuration rejected for non-positive stride has no effect on *)
(* the outside: when train() has raised the stride ValueError the dataset  *)
(* has not been loaded or hashed, the save directory has not been created, *)
(* no parameters, checkpoint or results file has been written and no model *)
(* has been built.                                                         *)
(***************************************************************************)
C12_RejectionHasNoEffect ==
    (InTrain /\ ret = StrideError) =>
        /\ ~d.loaded
        /\ effects \cap {"load", "hash", "makedirs"} = {}
        /\ DOMAIN fs = {}
        /\ model.name = "none" /\ ~model.ok
        /\ callbacks = <<>> /\ ~poseidon.bound
        /\ fit.epoch = 0

C12_Witness ==
    /\ InTrain /\ pc = "raised" /\ ret = StrideError
    /\ locals.version_data
    /\ locals.stride < 0
    /\ ~d.loaded /\ effects = {} /\ DOMAIN fs = {}

====
